---------------------------- MODULE Spec2Model ----------------------------
(***************************************************************************)
(* A model of the lexer of src/lexer/mod.rs.  Characters are Unicode       *)
(* scalar values (integers); the NUL sentinel and a U+0000 of the input    *)
(* are the same value 0, as they are the same char in the code.            *)
(* One action, Call_read_token, is one call of Lexer::read_token made by   *)
(* a driver (main.rs, or a test that keeps calling after Eof).             *)
(***************************************************************************)
EXTENDS Integers, Sequences, FiniteSets, TLC

(* ------------------------------ bounds -------------------------------- *)
\* longest input string explored
MaxLen == 3

\* longest tail put after the 38-digit prefix of the wide inputs
MaxTail == 2

\* longest tail put after `0x` in the hex inputs
MaxHex == 5

\* longest tail put after the opening quote in the string inputs
MaxStr == 4

\* longest input of the punctuation inputs
MaxPunct == 3

\* the driver makes at most this many read_token calls; a scanner that
\* consumes a character per call needs at most Len(input) + 1 to reach Eof
MaxCalls == MaxLen + 3

\* the characters inputs are drawn from:
\*   NUL  LF  FF  CR  SP  "  (  +  0  1  ;  <  =  \  a  u  x  e-acute
Alphabet == {0, 10, 12, 13, 32, 34, 40, 43, 48, 49, 59, 60, 61, 92, 97, 117, 120, 233}

Inputs == UNION {[1..n -> Alphabet] : n \in 0..MaxLen}

\* inputs around i128::MAX: its first 38 digits, then a tail over
\*   SP  0  7  8  =
WidePrefix ==
    <<49,55,48,49,52,49,49,56,51,52,54,48,52,54,57,50,51,49,55,
      51,49,54,56,55,51,48,51,55,49,53,56,56,52,49,48,53,55,50>>

WideTail == {32, 48, 55, 56, 61}

\* inputs around u128::MAX: `u`, its first 38 digits, then such a tail
UWidePrefix ==
    <<117,51,52,48,50,56,50,51,54,54,57,50,48,57,51,56,52,54,51,52,
      54,51,51,55,52,54,48,55,52,51,49,55,54,56,50,49,49,52,53>>

WideInputs ==
    {w \o t : w \in {WidePrefix, UWidePrefix},
              t \in UNION {[1..n -> WideTail] : n \in 0..MaxTail}}

\* hex buffers: `0x`, then a tail over
\*   SP  (  0  F  a  g  x
HexTail == {32, 40, 48, 70, 97, 103, 120}

\* string literals: an opening `"` or `u"`, alone or after a blank or a
\* newline, then a tail over
\*   "  \  0  n  r  t  u  x  e-acute
StrOpen == {<<34>>, <<117, 34>>, <<32, 34>>, <<10, 117, 34>>}

StrTail == {34, 92, 48, 110, 114, 116, 117, 120, 233}

StrInputs ==
    {o \o t : o \in StrOpen, t \in UNION {[1..n -> StrTail] : n \in 0..MaxStr}}

\* punctuation: strings over the twelve separators and four more,
\*   NUL  TAB  LF  FF  CR  SP  (  )  ,  :  {  }  <  =  >  a
PunctChars == {0, 9, 10, 12, 13, 32, 40, 41, 44, 58, 123, 125, 60, 61, 62, 97}

PunctInputs == UNION {[1..n -> PunctChars] : n \in 0..MaxPunct}

HexInputs == {<<48, 120>> \o t : t \in UNION {[1..n -> HexTail] : n \in 0..MaxHex}}

(* ------------------------- character classes -------------------------- *)
\* a faulty variant of is_ascii: the Latin-1 range is let through
is_ascii_latin1(ch) == ch <= 255

is_ascii(ch) == ch <= 127

is_ascii_digit(ch) == ch \in 48..57

is_ascii_alphabetic(ch) == ch \in 65..90 \/ ch \in 97..122

\* a faulty variant of is_ascii_hexdigit: the upper-case digits A-F are
\* not taken as hex digits
is_ascii_hexdigit_lower(ch) == ch \in 48..57 \/ ch \in 97..102

is_ascii_hexdigit(ch) == ch \in 48..57 \/ ch \in 65..70 \/ ch \in 97..102

\* U+0020 SPACE, U+0009 TAB, U+000A LF, U+000C FF, U+000D CR
is_ascii_whitespace(ch) == ch \in {32, 9, 10, 12, 13}

\* a faulty variant of to_digit16: every digit is valued as a decimal one
to_digit16_decimal(ch) == ch - 48

\* char::to_digit(16) of a hex digit
to_digit16(ch) ==
    IF ch \in 48..57 THEN ch - 48
    ELSE IF ch \in 65..70 THEN ch - 55
    ELSE ch - 87

is_separator(ch) ==
    IF ch \in {40, 41, 123, 125, 44, 58, 0} THEN TRUE
    ELSE is_ascii_whitespace(ch)

(* ------------------------------- state -------------------------------- *)
VARIABLES
    input,        \* the string handed to Lexer::new
    pos,          \* index in input of the lookahead; Len(input)+1 once Chars is exhausted
    next,         \* Lexer.next, the lookahead
    offset,       \* Lexer.offset
    line,         \* Lexer.line
    column,       \* Lexer.column
    last_line,    \* Lexer.last_line
    last_column,  \* Lexer.last_column
    errors,       \* Lexer.errors
    ret,          \* the PlacedToken the last read_token call returned
    pre,          \* the Lexer as it was when the last read_token call began
    tokens,       \* every PlacedToken returned so far, in order
    calls,        \* number of read_token calls made
    panicked      \* the process aborted on an arithmetic overflow (a build with overflow checks)

vars == <<input, pos, next, offset, line, column, last_line, last_column,
          errors, ret, pre, tokens, calls, panicked>>

\* the Lexer struct as one value
Self ==
    [pos |-> pos, next |-> next, offset |-> offset, line |-> line,
     column |-> column, last_line |-> last_line, last_column |-> last_column,
     errors |-> errors]

(* ------------------------------ tokens -------------------------------- *)
Span(sl, sc, el, ec) ==
    [start_line |-> sl, start_column |-> sc, end_line |-> el, end_column |-> ec]

\* An i128/u128 value is held as its decimal digits, most significant first,
\* without leading zeros (<<>> is 0), so that 128-bit values can be written.
\* wrapped marks a value produced by an arithmetic overflow that wrapped
\* around (a build without overflow checks): it is not the digits' value.
Num(digits) == [digits |-> digits, wrapped |-> FALSE]

Wrapped == [digits |-> <<>>, wrapped |-> TRUE]

\* i128::MAX = 2^127 - 1 = 170141183460469231731687303715884105727
I128_MAX ==
    <<1,7,0,1,4,1,1,8,3,4,6,0,4,6,9,2,3,1,7,3,1,6,8,7,3,0,3,7,1,5,8,8,4,1,0,5,7,2,7>>

\* u128::MAX = 2^128 - 1 = 340282366920938463463374607431768211455
U128_MAX ==
    <<3,4,0,2,8,2,3,6,6,9,2,0,9,3,8,4,6,3,4,6,3,3,7,4,6,0,7,4,3,1,7,6,8,2,1,1,4,5,5>>

\* a > b for digit sequences without leading zeros
digits_gt(a, b) ==
    \/ Len(a) > Len(b)
    \/ /\ Len(a) = Len(b)
       /\ \E k \in 1..Len(a) : a[k] > b[k] /\ \A j \in 1..(k - 1) : a[j] = b[j]

\* `num = num * 10 + digit` in a type whose largest value is max
mul10_add(num, digit, max) ==
    IF num.wrapped THEN Wrapped
    ELSE LET d == IF num.digits = <<>> /\ digit = 0 THEN <<>>
                  ELSE Append(num.digits, digit)
         IN  IF digits_gt(d, max) THEN Wrapped ELSE Num(d)

\* a Token: kind is the variant; num the Int/Uint payload; text the
\* String/Vec<u8> payload; err and arg the LexerError of an Error token
Token(kind, num, text) ==
    [kind |-> kind, num |-> num, text |-> text, err |-> "None", arg |-> 0]

TokenError(err, arg) ==
    [kind |-> "Error", num |-> Num(<<>>), text |-> <<>>, err |-> err, arg |-> arg]

PlacedToken(span, token) == [span |-> span, token |-> token]

NoToken == PlacedToken(Span(0, 0, 0, 0), Token("None", Num(<<>>), <<>>))

\* TLC evaluates an operator's argument anew at each use of the parameter;
\* Eval(v, F) evaluates v once and applies F to the value.
Eval(v, F(_)) == CHOOSE r \in {F(x) : x \in {v}} : TRUE

\* self.errors.push(PlacedToken { span, token: Token::Error(err) })
\* a faulty variant of push_error: the entry is put before the earlier ones
push_error_front(L, span, err, arg) ==
    [L EXCEPT !.errors = <<PlacedToken(span, TokenError(err, arg))>> \o @]

\* a faulty variant of push_error: the fault is dropped, not recorded
push_error_dropped(L, span, err, arg) == L

push_error(L, span, err, arg) ==
    [L EXCEPT !.errors = Append(@, PlacedToken(span, TokenError(err, arg)))]

(* ------------------------------ cursor -------------------------------- *)
read_char(L0) ==
    Eval(L0, LAMBDA L :
        [pos         |-> IF L.pos < Len(input) THEN L.pos + 1 ELSE Len(input) + 1,
         next        |-> IF L.pos < Len(input) THEN input[L.pos + 1] ELSE 0,
         offset      |-> L.offset + 1,
         line        |-> IF L.next = 10 THEN L.line + 1 ELSE L.line,
         column      |-> (IF L.next = 10 THEN 0 ELSE L.column) + 1,
         last_line   |-> L.line,
         last_column |-> L.column,
         errors      |-> L.errors])

new ==
    read_char([pos |-> 0, next |-> 0, offset |-> 0, line |-> 1, column |-> 0,
               last_line |-> 0, last_column |-> 0, errors |-> <<>>])

(* --------------------------- inner scanners --------------------------- *)
\* a faulty variant of skip_whitespace: one character is skipped, not the run
skip_whitespace_once(L0) ==
    IF L0.next # 0 /\ L0.next \in {32, 9, 13, 10} THEN read_char(L0) ELSE L0

RECURSIVE skip_whitespace(_)
skip_whitespace(L0) ==
    Eval(L0, LAMBDA L :
        IF L.next # 0 /\ L.next \in {32, 9, 13, 10}
        THEN skip_whitespace(read_char(L))
        ELSE L)

\* the loop of read_line, text being the local `line`
RECURSIVE read_line_loop(_, _)
read_line_loop(L0, text) ==
    Eval(L0, LAMBDA L :
        IF L.next = 10 \/ L.next = 0 THEN [L |-> L, val |-> text]
        ELSE IF L.next = 13 THEN read_line_loop(read_char(L), text)
        ELSE read_line_loop(read_char(L), Append(text, L.next)))

read_line(L) == read_line_loop(L, <<>>)

\* the while loop of proceed_through_error
\* a faulty variant of the resynchronization: only the offending character
\* is discarded
skip_offending_char(L0) ==
    IF ~is_separator(L0.next) THEN read_char(L0) ELSE L0

RECURSIVE skip_to_separator(_)
skip_to_separator(L0) ==
    Eval(L0, LAMBDA L :
        IF ~is_separator(L.next) THEN skip_to_separator(read_char(L)) ELSE L)

\* a faulty variant of proceed_through_error: the start of the span is
\* taken after the characters were discarded
proceed_through_error_late(L0, err, arg) ==
    Eval(skip_to_separator(L0), LAMBDA L1 :
        push_error(L1, Span(L1.line, L1.column, L1.last_line, L1.last_column),
                   err, arg))

proceed_through_error(L0, err, arg) ==
    Eval(L0, LAMBDA L :
        Eval(skip_to_separator(L), LAMBDA L1 :
            push_error(L1, Span(L.line, L.column, L1.last_line, L1.last_column),
                       err, arg)))

\* a faulty variant of is_ident_char: digits do not continue an identifier
is_ident_char_no_digit(ch) ==
    ch \in 97..122 \/ ch \in 65..90 \/ ch \in {95, 45, 33, 63}

\* the characters an identifier may continue with: a-z A-Z 0-9 _ - ! ?
is_ident_char(ch) ==
    ch \in 97..122 \/ ch \in 65..90 \/ ch \in 48..57 \/ ch \in {95, 45, 33, 63}

RECURSIVE read_identifier_loop(_, _)
read_identifier_loop(L0, ident) ==
    Eval(L0, LAMBDA L :
        IF is_ident_char(L.next)
        THEN read_identifier_loop(read_char(L), Append(ident, L.next))
        ELSE IF is_separator(L.next) THEN [L |-> L, val |-> ident]
        ELSE [L |-> proceed_through_error(L, "InvalidCharIdent", L.next), val |-> ident])

\* first is <<>> for None and <<c>> for Some(c)
read_identifier(L, first) == read_identifier_loop(L, first)

\* the digit loop of read_unsigned (max = u128::MAX) and of read_integer
\* (max = i128::MAX).  One pass of `while self.next.is_ascii_digit() {..}`:
\* the body when the condition holds, nothing once the loop has exited.
read_digits_step(S, max) ==
    IF is_ascii_digit(S.L.next)
    THEN [L |-> read_char(S.L), val |-> mul10_add(S.val, S.L.next - 48, max)]
    ELSE S

\* n passes, made by halves: a run near i128::MAX is 40 digits long and
\* is evaluated at depth log n
RECURSIVE read_digits_iter(_, _, _)
read_digits_iter(S0, max, n) ==
    Eval(S0, LAMBDA S :
        IF n = 0 THEN S
        ELSE IF n = 1 THEN read_digits_step(S, max)
        ELSE read_digits_iter(read_digits_iter(S, max, n \div 2), max, n - (n \div 2)))

\* the whole loop: every pass but the last consumes a character of input
read_digits(L, num, max) ==
    read_digits_iter([L |-> L, val |-> num], max, Len(input) + 1)

read_unsigned(L) ==
    Eval(read_digits(L, Num(<<>>), U128_MAX), LAMBDA r :
        IF ~is_separator(r.L.next)
        THEN [L |-> proceed_through_error(r.L, "InvalidCharUint", r.L.next), val |-> r.val]
        ELSE r)

read_integer(L) ==
    Eval(read_digits(L, Num(<<>>), I128_MAX), LAMBDA r :
        IF ~is_separator(r.L.next)
        THEN [L |-> proceed_through_error(r.L, "InvalidCharInt", r.L.next), val |-> r.val]
        ELSE r)

\* the loop of read_hex; f and s are its two lookaheads
RECURSIVE read_hex_loop(_, _, _, _)
read_hex_loop(L0, start_line, start_column, bytes) ==
    Eval(read_char(L0), LAMBDA L1 :
        IF ~is_ascii_hexdigit(L1.next)
        THEN [L |-> IF ~is_separator(L1.next)
                    THEN proceed_through_error(L1, "InvalidCharBuffer", L1.next)
                    ELSE L1,
              val |-> bytes]
        ELSE Eval(read_char(L1), LAMBDA L2 :
            IF ~is_ascii_hexdigit(L2.next)
            THEN [L |-> IF is_separator(L2.next)
                        THEN push_error(L2, Span(start_line, start_column,
                                                 L2.last_line, L2.last_column),
                                        "InvalidBufferLength", Len(bytes) * 2 + 1)
                        ELSE proceed_through_error(L2, "InvalidCharBuffer", L2.next),
                  val |-> bytes]
            ELSE read_hex_loop(L2, start_line, start_column,
                     Append(bytes, (to_digit16(L1.next) * 16 + to_digit16(L2.next)) % 256))))

read_hex(L0) ==
    Eval(L0, LAMBDA L : read_hex_loop(L, L.line, L.column - 1, <<>>))

\* a faulty variant of unescape: the escaped letter is taken as it is
unescape_raw(ch) == ch

\* the character a recognized escape stands for: \\ \" \n \t \r \0
unescape(ch) ==
    CASE ch = 92  -> 92
      [] ch = 34  -> 34
      [] ch = 110 -> 10
      [] ch = 116 -> 9
      [] ch = 114 -> 13
      [] ch = 48  -> 0

\* the loop of read_ascii_string; s and escaped are its locals.  65533 is
\* U+FFFD, the one character of the char literal pushed for an unknown
\* escape (mod.rs shows its UTF-8 bytes re-encoded).
RECURSIVE read_ascii_string_loop(_, _, _, _, _)
read_ascii_string_loop(L0, start_line, start_column, s, escaped) ==
    Eval(L0, LAMBDA L :
        IF escaped
        THEN IF L.next \in {92, 34, 110, 116, 114, 48}
             THEN read_ascii_string_loop(read_char(L), start_line, start_column,
                                         Append(s, unescape(L.next)), FALSE)
             ELSE read_ascii_string_loop(
                      read_char(push_error(L, Span(L.last_line, L.last_column,
                                                   L.line, L.column),
                                           "UnknownEscapeChar", L.next)),
                      start_line, start_column, Append(s, 65533), FALSE)
        ELSE IF L.next = 34 THEN [L |-> read_char(L), val |-> s]
        ELSE IF L.next = 92
        THEN read_ascii_string_loop(read_char(L), start_line, start_column, s, TRUE)
        ELSE IF L.next = 0
        THEN [L |-> push_error(L, Span(start_line, start_column,
                                       L.last_line, L.last_column),
                               "UnterminatedString", 0),
              val |-> s]
        ELSE read_ascii_string_loop(
                 read_char(IF ~is_ascii(L.next)
                           THEN push_error(L, Span(L.line, L.column, L.line, L.column),
                                           "IllegalCharString", L.next)
                           ELSE L),
                 start_line, start_column, Append(s, L.next), FALSE))

read_ascii_string(L0) ==
    Eval(L0, LAMBDA L :
        read_ascii_string_loop(read_char(L), L.line, L.column, <<>>, FALSE))

RECURSIVE read_utf8_string_loop(_, _, _, _, _)
read_utf8_string_loop(L0, start_line, start_column, s, escaped) ==
    Eval(L0, LAMBDA L :
        IF escaped
        THEN IF L.next \in {92, 34, 110, 116, 114, 48, 117}
             THEN read_utf8_string_loop(read_char(L), start_line, start_column,
                                        IF L.next = 117 THEN s \o <<92, 117>>
                                        ELSE Append(s, unescape(L.next)),
                                        FALSE)
             ELSE read_utf8_string_loop(
                      read_char(push_error(L, Span(L.last_line, L.last_column,
                                                   L.line, L.column),
                                           "UnknownEscapeChar", L.next)),
                      start_line, start_column, Append(s, 65533), FALSE)
        ELSE IF L.next = 34 THEN [L |-> read_char(L), val |-> s]
        ELSE IF L.next = 92
        THEN read_utf8_string_loop(read_char(L), start_line, start_column, s, TRUE)
        ELSE IF L.next = 0
        THEN [L |-> push_error(L, Span(start_line, start_column, L.line, L.column),
                               "UnterminatedString", 0),
              val |-> s]
        ELSE read_utf8_string_loop(read_char(L), start_line, start_column,
                                   Append(s, L.next), FALSE))

\* a faulty variant of read_utf8_string: the literal is read as an ASCII
\* string is
read_utf8_string_as_ascii(L0) ==
    Eval(L0, LAMBDA L :
        read_ascii_string_loop(read_char(L), L.last_line, L.last_column, <<>>, FALSE))

read_utf8_string(L0) ==
    Eval(L0, LAMBDA L :
        read_utf8_string_loop(read_char(L), L.last_line, L.last_column, <<>>, FALSE))

(* ----------------------------- dispatch ------------------------------ *)
\* the fixed one-character tokens of read_token's match
simple_token(ch) ==
    CASE ch = 0   -> "Eof"
      [] ch = 40  -> "Lparen"
      [] ch = 41  -> "Rparen"
      [] ch = 123 -> "Lbrace"
      [] ch = 125 -> "Rbrace"
      [] ch = 58  -> "Colon"
      [] ch = 46  -> "Dot"
      [] ch = 44  -> "Comma"
      [] ch = 43  -> "Plus"
      [] ch = 45  -> "Minus"
      [] ch = 42  -> "Multiply"
      [] ch = 47  -> "Divide"

\* what an arm of the match leaves: the scanner, `advance`, the token
Arm(L, advance, kind, num, text) ==
    [L |-> L, advance |-> advance, token |-> Token(kind, num, text)]

\* a faulty variant of the arm of '<' and '>': the final advance is left
\* on when no '=' follows
match_compare_advancing(L) ==
    Eval(read_char(L), LAMBDA L1 :
        IF L1.next = 61
        THEN Arm(L1, TRUE, IF L.next = 60 THEN "LessEqual" ELSE "GreaterEqual",
                 Num(<<>>), <<>>)
        ELSE Arm(L1, TRUE, IF L.next = 60 THEN "Less" ELSE "Greater",
                 Num(<<>>), <<>>))

\* the arm of '<' (60) and of '>' (62)
match_compare(L) ==
    Eval(read_char(L), LAMBDA L1 :
        IF L1.next = 61
        THEN Arm(L1, TRUE, IF L.next = 60 THEN "LessEqual" ELSE "GreaterEqual",
                 Num(<<>>), <<>>)
        ELSE Arm(L1, FALSE, IF L.next = 60 THEN "Less" ELSE "Greater",
                 Num(<<>>), <<>>))

\* a faulty variant of the arm of ';': a lone `;` is not recorded
match_semicolon_silent(L) ==
    Eval(read_char(L), LAMBDA L1 :
        Eval(read_line(skip_whitespace(IF L1.next # 59 THEN L1 ELSE read_char(L1))),
             LAMBDA r : Arm(r.L, FALSE, "Comment", Num(<<>>), r.val)))

\* the arm of ';'
match_semicolon(L) ==
    Eval(read_char(L), LAMBDA L1 :
        Eval(read_line(skip_whitespace(
                 IF L1.next # 59
                 THEN push_error(L1, Span(L1.last_line, L1.last_column,
                                          L1.last_line, L1.last_column),
                                 "SingleSemiColon", 0)
                 ELSE read_char(L1))),
             LAMBDA r : Arm(r.L, FALSE, "Comment", Num(<<>>), r.val)))

\* the arm of 'u'
match_u(L) ==
    Eval(read_char(L), LAMBDA L1 :
        IF is_ascii_digit(L1.next)
        THEN Eval(read_unsigned(L1), LAMBDA r : Arm(r.L, FALSE, "Uint", r.val, <<>>))
        ELSE IF L1.next = 34
        THEN Eval(read_utf8_string(L1), LAMBDA r :
                 Arm(r.L, FALSE, "Utf8String", Num(<<>>), r.val))
        ELSE Eval(read_identifier(L1, <<117>>), LAMBDA r :
                 Arm(r.L, FALSE, "Ident", Num(<<>>), r.val)))

\* the arm of '0'
match_zero(L) ==
    Eval(read_char(L), LAMBDA L1 :
        IF L1.next = 120
        THEN Eval(read_hex(L1), LAMBDA r : Arm(r.L, FALSE, "Bytes", Num(<<>>), r.val))
        ELSE IF is_ascii_digit(L1.next)
        THEN Eval(read_integer(L1), LAMBDA r : Arm(r.L, FALSE, "Int", r.val, <<>>))
        ELSE IF is_separator(L1.next)
        THEN Arm(L1, FALSE, "Int", Num(<<>>), <<>>)
        ELSE Arm(proceed_through_error(L1, "InvalidCharInt", L1.next),
                 FALSE, "Int", Num(<<>>), <<>>))

\* a faulty variant of the `_` arm: the span of UnknownSymbol starts at the
\* character before the symbol
match_other_wide_span(L) ==
    IF is_ascii_alphabetic(L.next)
    THEN Eval(read_identifier(L, <<>>), LAMBDA r :
             Arm(r.L, FALSE, "Ident", Num(<<>>), r.val))
    ELSE IF is_ascii_digit(L.next)
    THEN Eval(read_integer(L), LAMBDA r : Arm(r.L, FALSE, "Int", r.val, <<>>))
    ELSE Arm(push_error(L, Span(L.last_line, L.last_column, L.line, L.column),
                        "UnknownSymbol", L.next),
             FALSE, "Placeholder", Num(<<>>), <<>>)

\* the `_` arm
match_other(L) ==
    IF is_ascii_alphabetic(L.next)
    THEN Eval(read_identifier(L, <<>>), LAMBDA r :
             Arm(r.L, FALSE, "Ident", Num(<<>>), r.val))
    ELSE IF is_ascii_digit(L.next)
    THEN Eval(read_integer(L), LAMBDA r : Arm(r.L, FALSE, "Int", r.val, <<>>))
    ELSE Arm(push_error(L, Span(L.line, L.column, L.line, L.column),
                        "UnknownSymbol", L.next),
             FALSE, "Placeholder", Num(<<>>), <<>>)

\* `let token = match self.next { ... }`
match_next(L) ==
    IF L.next \in {0, 40, 41, 123, 125, 58, 46, 44, 43, 45, 42, 47}
    THEN Arm(L, TRUE, simple_token(L.next), Num(<<>>), <<>>)
    ELSE IF L.next \in {60, 62} THEN match_compare(L)
    ELSE IF L.next = 59 THEN match_semicolon(L)
    ELSE IF L.next = 117 THEN match_u(L)
    ELSE IF L.next \in {32, 9, 13, 10}
    THEN Arm(skip_whitespace(L), FALSE, "Whitespace", Num(<<>>), <<>>)
    ELSE IF L.next = 34
    THEN Eval(read_ascii_string(L), LAMBDA r :
             Arm(r.L, FALSE, "AsciiString", Num(<<>>), r.val))
    ELSE IF L.next = 48 THEN match_zero(L)
    ELSE match_other(L)

\* a faulty variant of the final advance: it is made whatever the arm left
final_advance_always(L, advance) == read_char(L)

\* `if advance { self.read_char(); }`
final_advance(L, advance) == IF advance THEN read_char(L) ELSE L

\* a faulty variant of read_token: the span starts at the place of the
\* character before the token
read_token_early_start(L0) ==
    Eval(L0, LAMBDA L :
        Eval(match_next(L), LAMBDA m :
            Eval(final_advance(m.L, m.advance), LAMBDA L1 :
                [L |-> L1,
                 placed |-> PlacedToken(Span(L.last_line, L.last_column,
                                             L1.last_line, L1.last_column),
                                        m.token)])))

\* Lexer::read_token: the scanner after the call and the PlacedToken returned
read_token(L0) ==
    Eval(L0, LAMBDA L :
        Eval(match_next(L), LAMBDA m :
            Eval(final_advance(m.L, m.advance), LAMBDA L1 :
                [L |-> L1,
                 placed |-> PlacedToken(Span(L.line, L.column,
                                             L1.last_line, L1.last_column),
                                        m.token)])))

(* --------------------------- specification ---------------------------- *)
\* Lexer::new(input), and a driver that has made no call yet
InitLexer ==
    /\ pos = new.pos
    /\ next = new.next
    /\ offset = new.offset
    /\ line = new.line
    /\ column = new.column
    /\ last_line = new.last_line
    /\ last_column = new.last_column
    /\ errors = new.errors
    /\ ret = NoToken
    /\ pre = new
    /\ tokens = <<>>
    /\ calls = 0
    /\ panicked = FALSE

Init == input \in Inputs /\ InitLexer

InitWide == input \in WideInputs /\ InitLexer

\* one iteration of the driver's loop: `let token = lex.read_token();`.
\* An overflow of `num * 10 + digit` panics where overflow checks are
\* compiled in (the dev profile) and wraps around where they are not (the
\* release profile): both outcomes are taken.
Call_read_token ==
    /\ calls < MaxCalls
    /\ ~panicked
    /\ \E r \in {read_token(Self)} :
           \E overflow_checks \in (IF r.placed.token.num.wrapped THEN BOOLEAN ELSE {FALSE}) :
             IF overflow_checks
             THEN /\ panicked' = TRUE
                  /\ UNCHANGED <<pos, next, offset, line, column, last_line,
                                 last_column, errors, ret, tokens>>
             ELSE /\ pos' = r.L.pos
                  /\ next' = r.L.next
                  /\ offset' = r.L.offset
                  /\ line' = r.L.line
                  /\ column' = r.L.column
                  /\ last_line' = r.L.last_line
                  /\ last_column' = r.L.last_column
                  /\ errors' = r.L.errors
                  /\ ret' = r.placed
                  /\ tokens' = Append(tokens, r.placed)
                  /\ panicked' = FALSE
    /\ pre' = Self
    /\ calls' = calls + 1
    /\ UNCHANGED input

Next == Call_read_token

Spec == Init /\ [][Next]_vars

\* the driver is a sequential loop: a call that can be made is made
FairSpec == Spec /\ WF_vars(Next)

\* the same scanner on the inputs around i128::MAX
SpecWide == InitWide /\ [][Next]_vars

\* the same scanner on the string literals
InitStr == input \in StrInputs /\ InitLexer

SpecStr == InitStr /\ [][Next]_vars

\* the same scanner on the punctuation inputs
InitPunct == input \in PunctInputs /\ InitLexer

SpecPunct == InitPunct /\ [][Next]_vars

\* the same scanner on the hex buffers
InitHex == input \in HexInputs /\ InitLexer

SpecHex == InitHex /\ [][Next]_vars

(* ------------------------ notions of the claims ----------------------- *)
\* the last read_token call returned (it did not abort)
Returned == calls > 0 /\ ~panicked

\* the 1-based line and column of the i-th character of input; i may be
\* Len(input) + 1, the place just after the last character
PosOf(i) ==
    LET lfs == {j \in 1..(i - 1) : input[j] = 10}
    IN  [line   |-> 1 + Cardinality(lfs),
         column |-> i - (IF lfs = {} THEN 0 ELSE CHOOSE m \in lfs : \A j \in lfs : j <= m)]

SpanStart(p) == [line |-> p.span.start_line, column |-> p.span.start_column]

SpanEnd(p) == [line |-> p.span.end_line, column |-> p.span.end_column]

\* index in tokens of the first Eof, or Len(tokens) + 1 when there is none
FirstEof ==
    LET eofs == {i \in DOMAIN tokens : tokens[i].token.kind = "Eof"}
    IN  IF eofs = {} THEN Len(tokens) + 1
        ELSE CHOOSE m \in eofs : \A j \in eofs : m <= j

(* ------------------------------- claims ------------------------------- *)
\* C1: a read_token call that returns either returns Eof or leaves the
\* cursor offset strictly greater than it was when the call began.
C1_Progress ==
    Returned => (ret.token.kind = "Eof" \/ offset > pre.offset)

C3_EofStable == [][ret.token.kind = "Eof" => ret'.token.kind = "Eof"]_vars

\* C4: a call that returns Eof leaves offset, line, column, last_line,
\* last_column and the error log as they were, and any two Eof tokens
\* that follow one another carry the same span.
C4_EofFrame ==
    /\ (Returned /\ ret.token.kind = "Eof") =>
          /\ offset = pre.offset
          /\ line = pre.line
          /\ column = pre.column
          /\ last_line = pre.last_line
          /\ last_column = pre.last_column
          /\ errors = pre.errors
    /\ \A i \in 1..(Len(tokens) - 1) :
          (tokens[i].token.kind = "Eof" /\ tokens[i + 1].token.kind = "Eof")
              => tokens[i].span = tokens[i + 1].span

\* C5: the spans of the tokens returned before the first Eof tile the
\* input: the first starts at 1:1, each next one starts at the character
\* right after the previous one's last character, and once Eof has been
\* returned the last one ends at the last character of the input (an input
\* with no token before Eof is empty).
C5_SpanTiling ==
    LET n == FirstEof - 1
    IN  /\ n >= 1 => SpanStart(tokens[1]) = [line |-> 1, column |-> 1]
        /\ \A i \in 2..n :
              \E k \in 1..Len(input) :
                  /\ SpanEnd(tokens[i - 1]) = PosOf(k)
                  /\ SpanStart(tokens[i]) = PosOf(k + 1)
        /\ FirstEof <= Len(tokens) =>
              IF n = 0 THEN input = <<>>
              ELSE SpanEnd(tokens[n]) = PosOf(Len(input))

\* C6: after Lexer::new and after every read_token call, (line, column) is
\* the 1-based position of the lookahead: line is 1 + the number of '\n'
\* before it and column is 1 + the number of characters between the last
\* such '\n' and it.
C6_LineColumn ==
    /\ line = PosOf(pos).line
    /\ column = PosOf(pos).column

\* the separators as the glossary lists them: ( ) { } , : NUL and the
\* ASCII whitespace SP TAB LF FF CR
Separators == {40, 41, 123, 125, 44, 58, 0, 32, 9, 10, 12, 13}

\* the characters the last call consumed
Consumed == [i \in 1..(pos - pre.pos) |-> input[pre.pos + i - 1]]

\* C7: when read_token returns Int, Uint, Bytes or Ident, with or without
\* a fault, the lookahead is a separator and none of the characters the
\* call consumed is one.
C7_StopsAtSeparator ==
    (Returned /\ ret.token.kind \in {"Int", "Uint", "Bytes", "Ident"}) =>
        /\ next \in Separators
        /\ \A i \in DOMAIN Consumed : Consumed[i] \notin Separators

\* a malformed literal was resynchronized: a fault was recorded, several
\* characters were discarded and a separator of the input is the lookahead
C7_Witness ==
    /\ Returned
    /\ ret.token.kind \in {"Int", "Uint", "Bytes", "Ident"}
    /\ Len(errors) > Len(pre.errors)
    /\ pos - pre.pos >= 2
    /\ pos <= Len(input)

Malformed ==
    \/ /\ ret.token.kind = "Int"
       /\ \E i \in DOMAIN Consumed : Consumed[i] \notin 48..57
    \/ /\ ret.token.kind = "Uint"
       /\ \E i \in 2..Len(Consumed) : Consumed[i] \notin 48..57
    \/ /\ ret.token.kind = "Ident"
       /\ \E i \in DOMAIN Consumed :
             Consumed[i] \notin (97..122 \cup 65..90 \cup 48..57 \cup {95, 45, 33, 63})
    \/ /\ ret.token.kind = "Bytes"
       /\ \/ Len(Consumed) % 2 = 1
          \/ \E i \in 3..Len(Consumed) :
                Consumed[i] \notin (48..57 \cup 65..70 \cup 97..102)
    \/ /\ ret.token.kind = "Comment"
       /\ Len(Consumed) < 2 \/ Consumed[2] # 59

CommentFrom ==
    IF pre.pos + 1 <= Len(input) /\ input[pre.pos + 1] = 59
    THEN pre.pos + 2
    ELSE pre.pos + 1

\* the first place at or after k that is a '\n', a NUL or the end of input
LineEnd(k) ==
    CHOOSE e \in k..(Len(input) + 1) :
        /\ e = Len(input) + 1 \/ input[e] \in {10, 0}
        /\ \A j \in k..(e - 1) : input[j] \notin {10, 0}

\* the first place in k..e that holds no space, tab or CR (e if none)
AfterBlank(k, e) ==
    CHOOSE f \in k..e :
        /\ f = e \/ input[f] \notin {32, 9, 13}
        /\ \A j \in k..(f - 1) : input[j] \in {32, 9, 13}

NotCR(ch) == ch # 13

\* the rest of the comment's line, leading blanks skipped, every CR removed
CommentText ==
    LET e == LineEnd(CommentFrom)
    IN  SelectSeq(SubSeq(input, AfterBlank(CommentFrom, e), e - 1), NotCR)

\* C9: the call that returns Comment consumes no '\n', its text is the
\* rest of the line of its `;`, and the lookahead at return is '\n' or NUL.
C9_CommentOneLine ==
    (Returned /\ ret.token.kind = "Comment") =>
        /\ \A i \in DOMAIN Consumed : Consumed[i] # 10
        /\ next \in {10, 0}
        /\ ret.token.text = CommentText

\* the first place at or after k that holds no ASCII digit
DigitRunEnd(k) ==
    CHOOSE e \in k..(Len(input) + 1) :
        /\ e = Len(input) + 1 \/ input[e] \notin 48..57
        /\ \A j \in k..(e - 1) : input[j] \in 48..57

\* the decimal value of the digits input[k..e-1], as digits without
\* leading zeros
DecimalValue(k, e) ==
    LET nz == {j \in k..(e - 1) : input[j] # 48}
    IN  IF nz = {} THEN <<>>
        ELSE LET f == CHOOSE m \in nz : \A j \in nz : m <= j
             IN  [i \in 1..(e - f) |-> input[f + i - 1] - 48]

\* a separator, or the end of input, is at place e
SeparatorAt(e) == e = Len(input) + 1 \/ input[e] \in Separators

\* C10: a call that begins at a digit run ended by a separator returns
\* Int of the run's decimal value, records no error and consumes exactly
\* the run; a call that begins at a '0' followed by a character that is
\* neither 'x', a digit nor a separator returns Int(0) and records exactly
\* one InvalidCharInt of that character.
C10_DecimalInt ==
    (Returned /\ pre.next \in 48..57) =>
        LET k == pre.pos
            e == DigitRunEnd(pre.pos)
        IN  /\ SeparatorAt(e) =>
                  /\ ret.token = Token("Int", Num(DecimalValue(k, e)), <<>>)
                  /\ errors = pre.errors
                  /\ pos = e
            /\ (pre.next = 48 /\ e = k + 1 /\ ~SeparatorAt(e) /\ input[e] # 120) =>
                  /\ ret.token = Token("Int", Num(<<>>), <<>>)
                  /\ Len(errors) = Len(pre.errors) + 1
                  /\ SubSeq(errors, 1, Len(pre.errors)) = pre.errors
                  /\ errors[Len(errors)].token = TokenError("InvalidCharInt", input[e])

\* C11: the 128-bit accumulation never leaves its range: no call aborts
\* and no Int or Uint returned carries a wrapped-around value.
C11_NoOverflow ==
    /\ ~panicked
    /\ \A i \in DOMAIN tokens : ~tokens[i].token.num.wrapped

\* the hex digits 0-9 A-F a-f and the value of one
HexDigits == (48..57) \cup (65..70) \cup (97..102)

HexValue(ch) ==
    IF ch \in 48..57 THEN ch - 48
    ELSE IF ch \in 65..70 THEN ch - 65 + 10
    ELSE ch - 97 + 10

\* the last call began at `0x`
AtHex ==
    /\ Returned
    /\ pre.next = 48
    /\ pre.pos + 1 <= Len(input)
    /\ input[pre.pos + 1] = 120

\* the first place at or after k that holds no hex digit
HexRunEnd(k) ==
    CHOOSE e \in k..(Len(input) + 1) :
        /\ e = Len(input) + 1 \/ input[e] \notin HexDigits
        /\ \A j \in k..(e - 1) : input[j] \in HexDigits

\* the bytes of the complete pairs of the hex digits input[k..e-1]
HexBytes(k, e) ==
    [i \in 1..((e - k) \div 2) |->
        16 * HexValue(input[k + 2 * i - 2]) + HexValue(input[k + 2 * i - 1])]

\* the first place at or after e that holds a separator, or the end
NextSeparator(e) ==
    CHOOSE q \in e..(Len(input) + 1) :
        /\ SeparatorAt(q)
        /\ \A j \in e..(q - 1) : ~SeparatorAt(j)

\* the entries the last call appended to the error log
NewErrors == SubSeq(errors, Len(pre.errors) + 1, Len(errors))

\* C12: a call that begins at `0x` followed by 2k hex digits and then a
\* separator returns Bytes of the k bytes 16*hi + lo in input order,
\* records no error and stops at the separator.
C12_HexBytes ==
    AtHex =>
        LET k == pre.pos + 2
            e == HexRunEnd(pre.pos + 2)
        IN  ((e - k) % 2 = 0 /\ SeparatorAt(e)) =>
                /\ ret.token = Token("Bytes", Num(<<>>), HexBytes(k, e))
                /\ errors = pre.errors
                /\ pos = e
                /\ next \in Separators

\* a buffer of two bytes or more was returned before a separator of the
\* input, with no error
C12_Witness ==
    /\ AtHex
    /\ ret.token.kind = "Bytes"
    /\ Len(ret.token.text) >= 2
    /\ errors = <<>>
    /\ pos <= Len(input)

\* C13: a call that begins at `0x` followed by an odd number of hex
\* digits and then a separator records exactly one InvalidBufferLength(n),
\* n = 2 * (completed bytes) + 1; if the character after the hex digits is
\* not a separator it records exactly one InvalidCharBuffer of that
\* character and stops at the next separator; in both cases the completed
\* bytes are returned.
C13_HexFaults ==
    AtHex =>
        LET k == pre.pos + 2
            e == HexRunEnd(pre.pos + 2)
        IN  /\ ((e - k) % 2 = 1 /\ SeparatorAt(e)) =>
                  /\ ret.token = Token("Bytes", Num(<<>>), HexBytes(k, e))
                  /\ Len(NewErrors) = 1
                  /\ NewErrors[1].token =
                        TokenError("InvalidBufferLength", 2 * ((e - k) \div 2) + 1)
                  /\ pos = e
            /\ ~SeparatorAt(e) =>
                  /\ ret.token = Token("Bytes", Num(<<>>), HexBytes(k, e))
                  /\ Len(NewErrors) = 1
                  /\ NewErrors[1].token = TokenError("InvalidCharBuffer", input[e])
                  /\ pos = NextSeparator(e)

\* an odd buffer was met and recorded by an earlier call, and the last
\* call met a buffer cut by a character that is neither a hex digit nor a
\* separator
C13_Witness ==
    /\ AtHex
    /\ Len(NewErrors) = 1
    /\ NewErrors[1].token.err = "InvalidCharBuffer"
    /\ \E j \in DOMAIN pre.errors : pre.errors[j].token.err = "InvalidBufferLength"

\* the last call returned a string token
AtString == Returned /\ ret.token.kind \in {"AsciiString", "Utf8String"}

\* the place of the opening quote of the literal of the last call
OpeningQuote == IF ret.token.kind = "AsciiString" THEN pre.pos ELSE pre.pos + 1

\* C14 as stated: the span of a string token, ASCII or UTF8, starts at the
\* position of the literal's opening quote.
C14_SpanAtQuote ==
    AtString => SpanStart(ret) = PosOf(OpeningQuote)

\* C14 as amended: the span of an AsciiString token starts at the position
\* of its opening quote; the span of a Utf8String token starts at the
\* position of the `u` that precedes its opening quote, one column before
\* the quote.
C14_SpanAtLiteralStart ==
    AtString =>
        /\ input[OpeningQuote] = 34
        /\ ret.token.kind = "Utf8String" => input[pre.pos] = 117
        /\ SpanStart(ret) = PosOf(pre.pos)
        /\ ret.token.kind = "Utf8String" =>
              SpanStart(ret) = [line   |-> PosOf(OpeningQuote).line,
                                column |-> PosOf(OpeningQuote).column - 1]

\* a UTF8 string was returned whose `u` is not the first character of input
C14_Witness ==
    /\ AtString
    /\ ret.token.kind = "Utf8String"
    /\ pre.pos > 1
    /\ Len(ret.token.text) >= 1

\* the character an escape \c stands for, c one of \ " n t r 0
EscapeOf(ch) ==
    CASE ch = 92  -> 92
      [] ch = 34  -> 34
      [] ch = 110 -> 10
      [] ch = 116 -> 9
      [] ch = 114 -> 13
      [] ch = 48  -> 0

\* A reading of the body of a string literal from place i on, esc telling
\* that the character before i is an unescaped backslash.  It gives the
\* decoded text, the characters of the unknown escapes, the places of the
\* unescaped non-ASCII characters, the number of \u escapes, whether an
\* unescaped quote closes the literal, and the place where the reading
\* ends.  In a UTF8 string \u stands for the two characters \ and u; in an
\* ASCII string it is an unknown escape.
RECURSIVE StrScan(_, _, _, _, _, _)
StrScan(i, esc, text, unknown, illegal, uesc) ==
    IF i > Len(input)
    THEN [text |-> text, unknown |-> unknown, illegal |-> illegal, uesc |-> uesc,
          closed |-> FALSE, end |-> i]
    ELSE IF esc
    THEN IF input[i] \in {92, 34, 110, 116, 114, 48}
         THEN StrScan(i + 1, FALSE, Append(text, EscapeOf(input[i])), unknown,
                      illegal, uesc)
         ELSE IF input[i] = 117 /\ ret.token.kind = "Utf8String"
         THEN StrScan(i + 1, FALSE, text \o <<92, 117>>, unknown, illegal, uesc + 1)
         ELSE StrScan(i + 1, FALSE, Append(text, 65533), Append(unknown, input[i]),
                      illegal, IF input[i] = 117 THEN uesc + 1 ELSE uesc)
    ELSE IF input[i] = 34
    THEN [text |-> text, unknown |-> unknown, illegal |-> illegal, uesc |-> uesc,
          closed |-> TRUE, end |-> i]
    ELSE IF input[i] = 92
    THEN StrScan(i + 1, TRUE, text, unknown, illegal, uesc)
    ELSE StrScan(i + 1, FALSE, Append(text, input[i]), unknown,
                 IF input[i] > 127 THEN Append(illegal, i) ELSE illegal, uesc)

\* the reading of the literal of the last call
Literal == StrScan(OpeningQuote + 1, FALSE, <<>>, <<>>, <<>>, 0)

IsUnknownEscape(e) == e.token.err = "UnknownEscapeChar"

IsUnterminated(e) == e.token.err = "UnterminatedString"

IsIllegalChar(e) == e.token.err = "IllegalCharString"

\* C15: for a literal closed by an unescaped quote, the text returned is
\* the body with each recognized escape replaced by its one decoded
\* character and each other escape by one replacement character, the call
\* stops just after the closing quote, and it records one
\* UnknownEscapeChar(c) per unknown escape \c, in order.
C15_Escapes ==
    (AtString /\ Literal.closed) =>
        LET unk == SelectSeq(NewErrors, IsUnknownEscape)
        IN  /\ ret.token.text = Literal.text
            /\ pos = Literal.end + 1
            /\ [j \in DOMAIN unk |-> unk[j].token.arg] = Literal.unknown

\* a closed ASCII string with an unknown escape was returned
C15_Witness ==
    /\ AtString
    /\ ret.token.kind = "AsciiString"
    /\ Literal.closed
    /\ Len(Literal.unknown) = 1
    /\ Len(ret.token.text) >= 2

\* C16: for a literal that the end of input cuts, the call returns the
\* string token with the text decoded so far and records exactly one
\* UnterminatedString; and the call after it returns Eof.
C16_Unterminated ==
    /\ (AtString /\ ~Literal.closed) =>
          /\ ret.token.text = Literal.text
          /\ Len(SelectSeq(NewErrors, IsUnterminated)) = 1
    /\ ( /\ Returned
         /\ Len(tokens) >= 2
         /\ tokens[Len(tokens) - 1].token.kind \in {"AsciiString", "Utf8String"}
         /\ pre.errors # <<>>
         /\ IsUnterminated(pre.errors[Len(pre.errors)]) ) =>
          ret.token.kind = "Eof"

\* a non-ASCII character other than the replacement character
NonAsciiRaw(ch) == ch > 127 /\ ch # 65533

\* C17: in an ASCII string every unescaped non-ASCII character records one
\* IllegalCharString(c) whose span is the position of the character, in
\* order; in a UTF8 string it records none; in both the character is
\* appended to the text.
C17_IllegalChar ==
    AtString =>
        LET ill == SelectSeq(NewErrors, IsIllegalChar)
            at  == Literal.illegal
        IN  /\ ret.token.kind = "AsciiString" =>
                  ill = [j \in DOMAIN at |->
                            PlacedToken(Span(PosOf(at[j]).line, PosOf(at[j]).column,
                                             PosOf(at[j]).line, PosOf(at[j]).column),
                                        TokenError("IllegalCharString", input[at[j]]))]
            /\ ret.token.kind = "Utf8String" => ill = <<>>
            /\ SelectSeq(ret.token.text, NonAsciiRaw) =
                  [j \in DOMAIN at |-> input[at[j]]]

\* an ASCII string with two unescaped non-ASCII characters was returned
C17_Witness ==
    /\ AtString
    /\ ret.token.kind = "AsciiString"
    /\ Len(Literal.illegal) >= 2
    /\ Literal.closed
    /\ pre.pos > 1

\* the characters of an identifier: A-Z a-z 0-9 _ ! ? -
IdentChars == (65..90) \cup (97..122) \cup (48..57) \cup {95, 33, 63, 45}

\* the first place at or after k that holds no identifier character
IdentRunEnd(k) ==
    CHOOSE e \in k..(Len(input) + 1) :
        /\ e = Len(input) + 1 \/ input[e] \notin IdentChars
        /\ \A j \in k..(e - 1) : input[j] \in IdentChars

\* C18: an Ident token begins at an ASCII letter and its text is the
\* maximal run of identifier characters from there; when a separator
\* stops the run nothing is recorded and the call stops at it; otherwise
\* exactly one InvalidCharIdent of the stopping character is recorded and
\* the call stops at the next separator, so that what lies between is in
\* no later token.
C18_Ident ==
    (Returned /\ ret.token.kind = "Ident") =>
        LET k == pre.pos
            e == IdentRunEnd(pre.pos)
        IN  /\ input[k] \in (65..90) \cup (97..122)
            /\ ret.token.text = SubSeq(input, k, e - 1)
            /\ SeparatorAt(e) => NewErrors = <<>> /\ pos = e
            /\ ~SeparatorAt(e) =>
                  /\ Len(NewErrors) = 1
                  /\ NewErrors[1].token = TokenError("InvalidCharIdent", input[e])
                  /\ pos = NextSeparator(e)

\* an identifier was cut by a character that may not follow it, and more
\* than that character was discarded
C18_Witness ==
    /\ Returned
    /\ ret.token.kind = "Ident"
    /\ Len(NewErrors) = 1
    /\ pos - pre.pos >= Len(ret.token.text) + 2

\* the comment scanned from place k on: blanks and newlines are skipped,
\* then the text runs to the first '\n', NUL or the end, without its CRs
Scanned(k) ==
    LET f == CHOOSE g \in k..(Len(input) + 1) :
                 /\ g = Len(input) + 1 \/ input[g] \notin {32, 9, 13, 10}
                 /\ \A j \in k..(g - 1) : input[j] \in {32, 9, 13, 10}
        e == LineEnd(f)
    IN  [text |-> SelectSeq(SubSeq(input, f, e - 1), NotCR), end |-> e]

\* C19: a call that begins at a `;` returns Comment.  After `;;` it
\* records nothing and the comment is scanned from the place after the
\* second `;`; after a lone `;` it records exactly one SingleSemiColon
\* whose span is the position of the `;`, and the comment is scanned by the
\* same rule from the place after the `;`.
C19_LoneSemicolon ==
    (Returned /\ pre.next = 59) =>
        /\ ret.token.kind = "Comment"
        /\ IF pre.pos + 1 <= Len(input) /\ input[pre.pos + 1] = 59
           THEN /\ NewErrors = <<>>
                /\ ret.token.text = Scanned(pre.pos + 2).text
                /\ pos = Scanned(pre.pos + 2).end
           ELSE /\ NewErrors =
                      <<PlacedToken(Span(PosOf(pre.pos).line, PosOf(pre.pos).column,
                                         PosOf(pre.pos).line, PosOf(pre.pos).column),
                                    TokenError("SingleSemiColon", 0))>>
                /\ ret.token.text = Scanned(pre.pos + 1).text
                /\ pos = Scanned(pre.pos + 1).end

\* a lone `;` that is not the first character of input gave a comment
\* with text
C19_Witness ==
    /\ Returned
    /\ pre.next = 59
    /\ pre.pos > 1
    /\ Len(NewErrors) = 1
    /\ Len(ret.token.text) >= 1

\* span end a is not after span end b
EndLeq(a, b) ==
    \/ a.span.end_line < b.span.end_line
    \/ a.span.end_line = b.span.end_line /\ a.span.end_column <= b.span.end_column

\* C20: the entries that were in the error log when a call began are its
\* first entries, unchanged, when the call returns; and the entries of the
\* log are in the order of the places where their faults were met, the
\* span of an entry ending where its fault was met.
C20_AppendOnly ==
    /\ Len(pre.errors) <= Len(errors)
    /\ SubSeq(errors, 1, Len(pre.errors)) = pre.errors
    /\ \A i \in 1..(Len(errors) - 1) : EndLeq(errors[i], errors[i + 1])

\* a call that began with a fault already recorded appended two more
C20_Witness ==
    /\ Returned
    /\ pre.errors # <<>>
    /\ Len(NewErrors) >= 2

\* the span of the characters at places i..j of input
SpanOf(i, j) ==
    Span(PosOf(i).line, PosOf(i).column, PosOf(j).line, PosOf(j).column)

\* the character at place i, the NUL sentinel past the end
CharAt(i) == IF i <= Len(input) THEN input[i] ELSE 0

\* C21: a call that begins at `<` or `>` followed by `=` returns LessEqual
\* or GreaterEqual, spanning and consuming the two characters; otherwise
\* it returns Less or Greater, spanning and consuming the operator alone,
\* and the character after the operator is the lookahead, at which the
\* next token starts.
C21_Compare ==
    /\ (Returned /\ pre.next \in {60, 62}) =>
          /\ NewErrors = <<>>
          /\ IF CharAt(pre.pos + 1) = 61
             THEN /\ ret.token.kind =
                        (IF pre.next = 60 THEN "LessEqual" ELSE "GreaterEqual")
                  /\ ret.span = SpanOf(pre.pos, pre.pos + 1)
                  /\ pos = pre.pos + 2
             ELSE /\ ret.token.kind = (IF pre.next = 60 THEN "Less" ELSE "Greater")
                  /\ ret.span = SpanOf(pre.pos, pre.pos)
                  /\ pos = pre.pos + 1
                  /\ next = CharAt(pre.pos + 1)
    /\ ( /\ Returned
         /\ Len(tokens) >= 2
         /\ tokens[Len(tokens) - 1].token.kind \in {"Less", "Greater"} ) =>
          /\ input[pre.pos - 1] \in {60, 62}
          /\ SpanEnd(tokens[Len(tokens) - 1]) = PosOf(pre.pos - 1)
          /\ SpanStart(ret) = PosOf(pre.pos)

\* a token was returned that began at the character peeked after a `>`
C21_Witness ==
    /\ Returned
    /\ Len(tokens) >= 2
    /\ tokens[Len(tokens) - 1].token.kind = "Greater"
    /\ ret.token.kind \in {"Ident", "Lparen", "Less"}
    /\ input[1] # 0

\* C22: a call that begins at `u` returns Uint of the value of the digit
\* run that follows when the next character is a digit, Utf8String when
\* it is a `"`, and otherwise an Ident whose text is the identifier run
\* that the `u` begins; the `u` is consumed once.
C22_UPrefix ==
    (Returned /\ pre.next = 117) =>
        LET c == CharAt(pre.pos + 1)
        IN  IF c \in 48..57
            THEN /\ ret.token =
                       Token("Uint",
                             Num(DecimalValue(pre.pos + 1, DigitRunEnd(pre.pos + 1))),
                             <<>>)
                 /\ pos >= DigitRunEnd(pre.pos + 1)
            ELSE IF c = 34
            THEN /\ ret.token.kind = "Utf8String"
                 /\ pos >= pre.pos + 2
            ELSE /\ ret.token.kind = "Ident"
                 /\ ret.token.text = SubSeq(input, pre.pos, IdentRunEnd(pre.pos) - 1)
                 /\ ret.token.text[1] = 117
                 /\ pos >= IdentRunEnd(pre.pos)

\* space, tab, CR, LF
Blanks == {32, 9, 13, 10}

\* the first place at or after k that holds no blank
BlankRunEnd(k) ==
    CHOOSE e \in k..(Len(input) + 1) :
        /\ e = Len(input) + 1 \/ input[e] \notin Blanks
        /\ \A j \in k..(e - 1) : input[j] \in Blanks

\* C23: a call that begins at a space, tab, CR or LF returns Whitespace,
\* and a Whitespace token spans the maximal run of those characters from
\* its first to its last, the call stopping at a lookahead that is none of
\* them and recording nothing; no two Whitespace tokens are returned in a
\* row.
C23_Whitespace ==
    /\ (Returned /\ pre.next \in Blanks) => ret.token.kind = "Whitespace"
    /\ (Returned /\ ret.token.kind = "Whitespace") =>
          /\ pre.next \in Blanks
          /\ pos = BlankRunEnd(pre.pos)
          /\ ret.span = SpanOf(pre.pos, BlankRunEnd(pre.pos) - 1)
          /\ next \notin Blanks
          /\ NewErrors = <<>>
    /\ \A i \in 1..(Len(tokens) - 1) :
          ~(tokens[i].token.kind = "Whitespace" /\ tokens[i + 1].token.kind = "Whitespace")

\* a Whitespace token over a run that crosses a line break was returned
\* before another character of the input
C23_Witness ==
    /\ Returned
    /\ ret.token.kind = "Whitespace"
    /\ pos - pre.pos >= 2
    /\ ret.span.end_line > ret.span.start_line
    /\ pos <= Len(input)

\* the characters that begin a token: NUL, the punctuation ( ) { } : . ,
\* the operators + - * / < >, `;`, `"`, the blanks, the ASCII letters and
\* the ASCII digits
TokenStarts ==
    {0, 40, 41, 123, 125, 58, 46, 44, 43, 45, 42, 47, 60, 62, 59, 34}
        \cup Blanks \cup (65..90) \cup (97..122) \cup (48..57)

\* C24: a call that begins at a character that begins no token records
\* exactly one UnknownSymbol of that character, whose span starts and ends
\* at the character's position, and returns Placeholder; no other call
\* returns Placeholder.
C24_UnknownSymbol ==
    /\ (Returned /\ pre.next \notin TokenStarts) =>
          /\ ret.token = Token("Placeholder", Num(<<>>), <<>>)
          /\ NewErrors =
                <<PlacedToken(SpanOf(pre.pos, pre.pos),
                              TokenError("UnknownSymbol", pre.next))>>
    /\ (Returned /\ ret.token.kind = "Placeholder") => pre.next \notin TokenStarts

\* a non-ASCII character that is not the first of the input gave Placeholder
C24_Witness ==
    /\ Returned
    /\ ret.token.kind = "Placeholder"
    /\ pre.next > 127
    /\ pre.pos > 1
    /\ input[1] # 0
    /\ Len(errors) = 1

\* the faults recorded by resynchronization
ResyncFaults ==
    {"InvalidCharInt", "InvalidCharUint", "InvalidCharIdent", "InvalidCharBuffer"}

\* the place of the character that ends the literal of the last call
Offending ==
    CASE ret.token.kind = "Int"   -> DigitRunEnd(pre.pos)
      [] ret.token.kind = "Uint"  -> DigitRunEnd(pre.pos + 1)
      [] ret.token.kind = "Ident" -> IdentRunEnd(pre.pos)
      [] ret.token.kind = "Bytes" -> HexRunEnd(pre.pos + 2)
      [] OTHER -> 0

\* C25: an error recorded by resynchronization carries the offending
\* character; its span starts at that character and ends at the last
\* character before the next separator, and its start is not after its
\* end.
C25_ResyncSpan ==
    Returned =>
        \A j \in DOMAIN NewErrors :
            NewErrors[j].token.err \in ResyncFaults =>
                /\ Offending \in 1..Len(input)
                /\ NewErrors[j].token.arg = input[Offending]
                /\ NewErrors[j].span = SpanOf(Offending, NextSeparator(Offending) - 1)
                /\ NewErrors[j].span.start_line = NewErrors[j].span.end_line
                /\ NewErrors[j].span.start_column <= NewErrors[j].span.end_column

\* a resynchronization discarded two characters or more of a literal that
\* is not at the start of the input
C25_Witness ==
    /\ Returned
    /\ NewErrors # <<>>
    /\ NewErrors[Len(NewErrors)].token.err \in ResyncFaults
    /\ NewErrors[Len(NewErrors)].span.end_column
          > NewErrors[Len(NewErrors)].span.start_column
    /\ NewErrors[Len(NewErrors)].span.start_column >= 2

IsUnknownEscapeU(e) == e.token.err = "UnknownEscapeChar" /\ e.token.arg = 117

\* C26: a UTF8 string records no error for \u and, when closed, its text
\* holds the two characters \ and u for each \u, nothing being decoded; an
\* ASCII string records one UnknownEscapeChar('u') for each \u and, when
\* closed, its text holds one replacement character for it.
C26_EscapeU ==
    AtString =>
        /\ Len(SelectSeq(NewErrors, IsUnknownEscapeU)) =
              (IF ret.token.kind = "Utf8String" THEN 0 ELSE Literal.uesc)
        /\ Literal.closed => ret.token.text = Literal.text

\* a closed UTF8 string with a \u escape and other text was returned
C26_Witness ==
    /\ AtString
    /\ ret.token.kind = "Utf8String"
    /\ Literal.closed
    /\ Literal.uesc = 1
    /\ Len(ret.token.text) >= 3
    /\ NewErrors = <<>>

\* the number of read_char calls the last read_token call made: offset is
\* incremented once by each
Reads == offset - pre.offset

\* C27: a read_token call that may be made returns; every pass of an inner
\* loop that does not leave the loop calls read_char, and the call makes
\* at most one read_char per character from its first lookahead to the
\* end of the input, and one more.
C27_CallReturns ==
    /\ (calls < MaxCalls /\ ~panicked) => ENABLED Call_read_token
    /\ Returned => Reads <= (Len(input) + 1 - pre.pos) + 1

\* the input ended inside an escape sequence of a string and the call
\* returned
C27_Witness ==
    /\ AtString
    /\ input[Len(input)] = 92
    /\ ~Literal.closed
    /\ NewErrors # <<>>
    /\ IsUnterminated(NewErrors[Len(NewErrors)])
    /\ Reads = Len(input) + 2 - pre.pos
    /\ pre.pos > 1
    /\ input[1] # 0

\* the start of span sp is not after its end
StartLeqEnd(sp) ==
    \/ sp.start_line < sp.end_line
    \/ sp.start_line = sp.end_line /\ sp.start_column <= sp.end_column

\* C28: the span of every token returned has its four fields at least 1
\* and its start not after its end.
C28_WellFormedSpans ==
    \A i \in DOMAIN tokens :
        /\ tokens[i].span.start_line >= 1
        /\ tokens[i].span.start_column >= 1
        /\ tokens[i].span.end_line >= 1
        /\ tokens[i].span.end_column >= 1
        /\ StartLeqEnd(tokens[i].span)

\* position a is not after position b
PosLeq(a, b) == a.line < b.line \/ (a.line = b.line /\ a.column <= b.column)

\* C29: every entry a call appended to the error log has a span within
\* the span of the token the call returned.
C29_ErrorWithinToken ==
    Returned =>
        \A j \in DOMAIN NewErrors :
            /\ PosLeq(SpanStart(ret), SpanStart(NewErrors[j]))
            /\ PosLeq(SpanEnd(NewErrors[j]), SpanEnd(ret))

\* the token a separator is dispatched to
SeparatorToken(ch) ==
    CASE ch = 40  -> "Lparen"
      [] ch = 41  -> "Rparen"
      [] ch = 123 -> "Lbrace"
      [] ch = 125 -> "Rbrace"
      [] ch = 44  -> "Comma"
      [] ch = 58  -> "Colon"
      [] ch = 0   -> "Eof"
      [] OTHER    -> "Whitespace"

\* C30: a call that begins at a separator returns the token of that
\* separator (Lparen, Rparen, Lbrace, Rbrace, Comma, Colon, Eof, or
\* Whitespace for space, tab, LF, form feed and CR), consumes the
\* separator and records no error.
C30_SeparatorsDispatch ==
    (Returned /\ pre.next \in Separators) =>
        /\ ret.token.kind = SeparatorToken(pre.next)
        /\ NewErrors = <<>>
        /\ ret.token.kind = "Eof" \/ pos > pre.pos

\* no character of input is left to read: the lookahead stands past the last
\* character of input
InputExhausted == pos > Len(input)

\* C31: when a read_token call has returned Eof, every character of the
\* input has been consumed (U+0000 in the input included): no character
\* remains unscanned after the first Eof.
C31_EofAtEnd ==
    (Returned /\ ret.token.kind = "Eof") => InputExhausted

=============================================================================
